---- MODULE Spec2Model ----
(***************************************************************************)
(* Model of the AudioInsights AI client: the App component's state         *)
(* container (src/App.tsx), the upload / read / inference pipeline it      *)
(* starts, the inference client analyzeAudio (services/geminiService) and  *)
(* the Markdown export.                                                    *)
(*                                                                         *)
(* React state updates made in one synchronous stretch of a handler are    *)
(* batched into one render, so each stretch between two suspension points  *)
(* (event handler, reader callback, continuation after the await) is one   *)
(* action.                                                                 *)
(***************************************************************************)
EXTENDS Integers, Sequences, FiniteSets, TLC

\* number of file selections explored in one behaviour
MaxUploads == 2

\* ---------------------------------------------------------------- values
\* a nullable value (T | null, T | undefined): None or Some(v)
None == << >>
Some(v) == << v >>

\* enum AppState; TRANSCRIBING is declared and never assigned
AppState == {"IDLE", "UPLOADING", "TRANSCRIBING", "ANALYZING", "COMPLETED", "ERROR"}

\* 20 * 1024 * 1024, the literal of the size check
MaxFileSize == 20 * 1024 * 1024

SizeLimitMessage == "File is too large. Please select an audio file under 20MB."
ReadFailureMessage == "Failed to read file"
EmptyResponseMessage == "No response from AI"
SyntaxErrorMessage == "SyntaxError: Unexpected token"
ApiErrorMessage == "ApiError"

\* file names are strings, modelled as sequences of characters
FileNames ==
  { << "m", ".", "a" >>,
    << "m", ".", "n", ".", "a" >> }

FileSizes == { 1, MaxFileSize, MaxFileSize + 1, 2 * MaxFileSize }

\* File.type as the browser reports it; "" when it does not know the type
FileTypes == { "", "audio/wav" }

Files == [ name : FileNames, size : FileSizes, type : FileTypes ]

\* ------------------------------------------------- inference client
\* response.text values the hosted model can answer with
TextNoItems ==
  "{\"transcription\":\"hello\",\"executiveSummary\":\"s\",\"actionItems\":[],\"sentiment\":\"Neutral\",\"sentimentReasoning\":\"r\"}"
TextAssigned ==
  "{\"transcription\":\"hello\",\"executiveSummary\":\"s\",\"actionItems\":[{\"task\":\"t\",\"assignee\":\"Unassigned\"}],\"sentiment\":\"Positive\",\"sentimentReasoning\":\"r\"}"
TextNoAssignee ==
  "{\"transcription\":\"hello\",\"executiveSummary\":\"s\",\"actionItems\":[{\"task\":\"t\"}],\"sentiment\":\"Negative\",\"sentimentReasoning\":\"r\"}"
TextNotJson == "I could not process the audio"

\* outcomes of ai.models.generateContent: it rejects, or it resolves with a
\* response whose text is absent (None) or a string
Responses ==
  { [ rejected |-> TRUE ] } \cup
  { [ rejected |-> FALSE, text |-> t ] :
      t \in { None, Some(""), Some(TextNotJson), Some(TextNoItems),
              Some(TextAssigned), Some(TextNoAssignee) } }

\* JSON.parse on the texts above: the value the text denotes, or a throw.
\* Nothing is checked against the declared responseSchema.
JSONparse(text) ==
  CASE text = TextNoItems ->
         [ threw |-> FALSE,
           value |-> [ transcription |-> "hello", executiveSummary |-> "s",
                       actionItems |-> << >>, sentiment |-> "Neutral",
                       sentimentReasoning |-> "r" ] ]
    [] text = TextAssigned ->
         [ threw |-> FALSE,
           value |-> [ transcription |-> "hello", executiveSummary |-> "s",
                       actionItems |-> << [ task |-> "t", assignee |-> "Unassigned" ] >>,
                       sentiment |-> "Positive", sentimentReasoning |-> "r" ] ]
    [] text = TextNoAssignee ->
         [ threw |-> FALSE,
           value |-> [ transcription |-> "hello", executiveSummary |-> "s",
                       actionItems |-> << [ task |-> "t" ] >>,
                       sentiment |-> "Negative", sentimentReasoning |-> "r" ] ]
    [] OTHER -> [ threw |-> TRUE, message |-> SyntaxErrorMessage ]

\* !text : true of undefined and of the empty string
Falsy(text) == text = None \/ text = Some("")

\* analyzeAudio once generateContent has settled with `response`
analyzeAudio(response) ==
  IF response.rejected
    THEN [ threw |-> TRUE, message |-> ApiErrorMessage ]
    ELSE IF Falsy(response.text)
      THEN [ threw |-> TRUE, message |-> EmptyResponseMessage ]
      ELSE JSONparse(response.text[1])

\* ------------------------------------------------------------- state
VARIABLES
  state,      \* useState<AppState>
  error,      \* useState<string | null>
  result,     \* useState<AnalysisResult | null>
  fileName,   \* useState<string | null>
  log,        \* one entry per accepted change event of the file input
  download    \* the last file handed to the browser by downloadMarkdown

vars == << state, error, result, fileName, log, download >>

Init ==
  /\ state = "IDLE"
  /\ error = None
  /\ result = None
  /\ fileName = None
  /\ log = << >>
  /\ download = None

\* reads started by readAsDataURL whose load / error event has not fired
PendingReads == { i \in DOMAIN log : log[i].read = "pending" }

\* analyzeAudio calls that are awaited and have not settled
InFlight == { i \in DOMAIN log : log[i].calls # << >> /\ log[i].settled = None }

\* -------------------------------------------------------- rendering
\* variants of the file input's mounting condition: mounted in every state,
\* and mounted in the loading states as well
FileInputAlwaysRendered == TRUE
FileInputRenderedWhileLoading == state \in { "IDLE", "UPLOADING", "ANALYZING" }

\* the <input type="file"> is part of the hero section, mounted only when
\* state === AppState.IDLE
FileInputRendered == state = "IDLE"

\* the error card with the 'Try Again' button
ErrorCardRendered == state = "ERROR"

\* the results dashboard with the 'Upload New File' button
DashboardRendered == state = "COMPLETED" /\ result # None

\* the 'Export Report' button of the header
ExportButtonRendered == state = "COMPLETED"

\* ------------------------------------------------------ file ingestion
\* variants of the size check: a limit one byte too high, and >= for >
TooLargeOffByOne(size) == size > MaxFileSize + 1
TooLargeInclusive(size) == size >= MaxFileSize

\* file.size > 20 * 1024 * 1024
TooLarge(size) == size > MaxFileSize

\* file.type || 'audio/mpeg'
MimeTypeOf(file) == IF file.type = "" THEN "audio/mpeg" ELSE file.type

\* what a stretch of an upload's code left in the state container
Snapshot(st, err) == [ state |-> st, error |-> err ]

\* variant of handleFileUpload whose accepting branch omits setError(null)
handleFileUploadKeepsError(file) ==
  /\ FileInputRendered
  /\ Len(log) < MaxUploads
  /\ IF TooLarge(file.size)
       THEN /\ error' = Some(SizeLimitMessage)
            /\ state' = "ERROR"
            /\ log' = Append(log, [ file |-> file,
                                    writes |-> << Snapshot(state', error') >>,
                                    read |-> "none",
                                    calls |-> << >>,
                                    settled |-> None,
                                    uncaught |-> None ])
            /\ UNCHANGED << fileName, result >>
       ELSE /\ fileName' = Some(file.name)
            /\ state' = "UPLOADING"
            /\ log' = Append(log, [ file |-> file,
                                    writes |-> << Snapshot(state', error) >>,
                                    read |-> "pending",
                                    calls |-> << >>,
                                    settled |-> None,
                                    uncaught |-> None ])
            /\ UNCHANGED << result, error >>
  /\ UNCHANGED download

\* handleFileUpload for a change event carrying `file`.  The early return on
\* a missing file changes nothing and is not an accepted selection.  The
\* catch block guards only the synchronous construction and start of the
\* reader, which do not throw for a File taken from the input.
handleFileUpload(file) ==
  /\ FileInputRendered
  /\ Len(log) < MaxUploads
  /\ IF TooLarge(file.size)
       THEN /\ error' = Some(SizeLimitMessage)
            /\ state' = "ERROR"
            /\ log' = Append(log, [ file |-> file,
                                    writes |-> << Snapshot(state', error') >>,
                                    read |-> "none",
                                    calls |-> << >>,
                                    settled |-> None,
                                    uncaught |-> None ])
            /\ UNCHANGED << fileName, result >>
       ELSE /\ fileName' = Some(file.name)
            /\ state' = "UPLOADING"
            /\ error' = None
            /\ log' = Append(log, [ file |-> file,
                                    writes |-> << Snapshot(state', error') >>,
                                    read |-> "pending",
                                    calls |-> << >>,
                                    settled |-> None,
                                    uncaught |-> None ])
            /\ UNCHANGED result
  /\ UNCHANGED download

\* reader.onload up to the await: the payload after the comma of the data
\* URL and the MIME type go to analyzeAudio (the payload is not inspected by
\* any code of the client and is left out of the call record)
ReaderOnLoad(i) ==
  /\ i \in PendingReads
  /\ state' = "ANALYZING"
  /\ log' = [ log EXCEPT ![i].read = "loaded",
                         ![i].calls = Append(@, [ mimeType |-> MimeTypeOf(log[i].file) ]),
                         ![i].writes = Append(@, Snapshot("ANALYZING", error)) ]
  /\ UNCHANGED << error, result, fileName, download >>

\* reader.onerror: the throw happens in the event callback, outside the
\* try block of handleFileUpload, which has returned; nothing catches it
ReaderOnError(i) ==
  /\ i \in PendingReads
  /\ log' = [ log EXCEPT ![i].read = "failed",
                         ![i].uncaught = Some(ReadFailureMessage) ]
  /\ UNCHANGED << state, error, result, fileName, download >>

\* the continuation of reader.onload after `await analyzeAudio(...)`.  A
\* rejection rejects the promise of the async callback, which nobody awaits.
InferenceSettled(i, response) ==
  /\ i \in InFlight
  /\ LET analysis == analyzeAudio(response) IN
       IF analysis.threw
         THEN /\ log' = [ log EXCEPT ![i].settled = Some(response),
                                     ![i].uncaught = Some(analysis.message) ]
              /\ UNCHANGED << state, result >>
         ELSE /\ result' = Some(analysis.value)
              /\ state' = "COMPLETED"
              /\ log' = [ log EXCEPT ![i].settled = Some(response),
                                     ![i].writes = Append(@, Snapshot("COMPLETED", error)) ]
  /\ UNCHANGED << error, fileName, download >>

\* onClick of 'Try Again'
TryAgain ==
  /\ ErrorCardRendered
  /\ state' = "IDLE"
  /\ UNCHANGED << error, result, fileName, log, download >>

\* onClick of 'Upload New File'
UploadNewFile ==
  /\ DashboardRendered
  /\ state' = "IDLE"
  /\ UNCHANGED << error, result, fileName, log, download >>

\* ----------------------------------------------------- Markdown export
\* String.prototype.split with a one-character separator
RECURSIVE Split(_, _)
Split(s, sep) ==
  LET hits == { i \in 1..Len(s) : s[i] = sep } IN
    IF hits = {}
      THEN << s >>
      ELSE LET first == CHOOSE i \in hits : \A j \in hits : i <= j IN
             << SubSeq(s, 1, first - 1) >> \o Split(SubSeq(s, first + 1, Len(s)), sep)

ReportSuffix == << "_", "r", "e", "p", "o", "r", "t", ".", "m", "d" >>
DefaultStem == << "a", "n", "a", "l", "y", "s", "i", "s" >>

\* `${fileName?.split('.')[0] || 'analysis'}_report.md`
DownloadName(name) ==
  LET stem == IF name = None THEN None ELSE Some(Split(name[1], ".")[1]) IN
    (IF stem = None \/ stem = Some(<< >>) THEN DefaultStem ELSE stem[1]) \o ReportSuffix

\* ${item.k} in a template literal: a missing property prints as undefined
Interpolate(item, k) == IF k \in DOMAIN item THEN item[k] ELSE "undefined"

\* - [ ] **${item.task}** (Assignee: ${item.assignee})
ItemLine(item) ==
  << "- [ ] **", Interpolate(item, "task"), "** (Assignee: ",
     Interpolate(item, "assignee"), ")" >>

\* result.actionItems.map(...).join('\n'); the join of no lines is one
\* empty line of the template
ItemLines(items) ==
  IF items = << >> THEN << << "" >> >> ELSE [ i \in 1..Len(items) |-> ItemLine(items[i]) ]

\* the template literal of downloadMarkdown, line by line; a line is the
\* sequence of its literal and interpolated parts
Template(name, res) ==
  << << "" >>,
     << "# Audio Analysis: ", IF name = None THEN "null" ELSE name[1] >>,
     << "" >>,
     << "## Executive Summary" >>,
     << res.executiveSummary >>,
     << "" >>,
     << "## Sentiment Analysis" >>,
     << "**Tone:** ", res.sentiment >>,
     << "**Reasoning:** ", res.sentimentReasoning >>,
     << "" >>,
     << "## Action Items" >> >>
  \o ItemLines(res.actionItems) \o
  << << "" >>,
     << "## Full Transcription" >>,
     << res.transcription >>,
     << "    " >> >>

IsBlank(line) == Len(line) = 1 /\ line[1] \in { "", "    " }

\* String.prototype.trim on the template: the blank lines at both ends go
RECURSIVE Trim(_)
Trim(lines) ==
  IF lines = << >> THEN lines
  ELSE IF IsBlank(Head(lines)) THEN Trim(Tail(lines))
  ELSE IF IsBlank(lines[Len(lines)]) THEN Trim(SubSeq(lines, 1, Len(lines) - 1))
  ELSE lines

\* onClick of 'Export Report'; with no result the handler returns at once
downloadMarkdown ==
  /\ ExportButtonRendered
  /\ result # None
  /\ download' = Some([ exported |-> fileName,
                        name |-> DownloadName(fileName),
                        content |-> Trim(Template(fileName, result[1])) ])
  /\ UNCHANGED << state, error, result, fileName, log >>

\* ------------------------------------------------------ specification
SelectFile == \E file \in Files : handleFileUpload(file)
ReadCompletes == \E i \in DOMAIN log : ReaderOnLoad(i)
ReadFails == \E i \in DOMAIN log : ReaderOnError(i)
InferenceSettles ==
  \E i \in DOMAIN log : \E response \in Responses : InferenceSettled(i, response)

Next ==
  \/ SelectFile
  \/ ReadCompletes
  \/ ReadFails
  \/ InferenceSettles
  \/ TryAgain
  \/ UploadNewFile
  \/ downloadMarkdown

Spec == Init /\ [][Next]_vars

\* =============================================================== claims
Terminal == { "COMPLETED", "ERROR" }
Pending == PendingReads \cup InFlight
StatesWritten(i) == { log[i].writes[k].state : k \in DOMAIN log[i].writes }
LastWrite(i) == log[i].writes[Len(log[i].writes)]

\* C1: in every reachable state the stored result is non-null iff the state
\* is COMPLETED, and the stored error message is non-null iff the state is
\* ERROR.
C1_ResultIffCompletedErrorIffError ==
  /\ (result # None) <=> (state = "COMPLETED")
  /\ (error # None) <=> (state = "ERROR")

\* C2: a selection of at least 20 MiB + 1 byte ends in ERROR with the
\* size-limit message; no read and no analyzeAudio call is started for it and
\* its handler writes neither UPLOADING nor ANALYZING.
C2_OversizeRejectedBeforeAnyWork ==
  \A i \in DOMAIN log :
    log[i].file.size >= 20 * 1024 * 1024 + 1 =>
      /\ log[i].writes = << [ state |-> "ERROR", error |-> Some(SizeLimitMessage) ] >>
      /\ log[i].read = "none"
      /\ log[i].calls = << >>
      /\ i \notin Pending
      /\ (i = Len(log) /\ state # "IDLE") =>
           (state = "ERROR" /\ error = Some(SizeLimitMessage))

C2_Witness ==
  /\ log # << >>
  /\ log[Len(log)].file.size = 20 * 1024 * 1024 + 1
  /\ state = "ERROR"

\* C3: when the model call returns empty or absent text, analyzeAudio raises
\* "No response from AI" and the upload takes the state from ANALYZING to
\* ERROR with a message, never to COMPLETED.
C3_EmptyResponseEndsInError ==
  \A i \in DOMAIN log :
    (/\ log[i].settled # None
     /\ ~ log[i].settled[1].rejected
     /\ log[i].settled[1].text \in { None, Some("") }) =>
      /\ log[i].uncaught \in { None, Some(EmptyResponseMessage) }
      /\ "COMPLETED" \notin StatesWritten(i)
      /\ LastWrite(i).state = "ERROR"
      /\ LastWrite(i).error # None

\* C4: 'Try Again' from ERROR yields IDLE with the stored file name, error
\* message and prior result all null.
C4_TryAgainClearsEverything ==
  [][ TryAgain =>
        (state' = "IDLE" /\ fileName' = None /\ error' = None /\ result' = None) ]_vars

\* C5: once the state is COMPLETED or ERROR, the only step that changes it is
\* an explicit reset to IDLE; no read or inference callback of any upload and
\* no new selection acts on it.
C5_TerminalUntilReset ==
  [][ (state \in Terminal) =>
        ( log' = log /\
          ( state' = state \/ (state' = "IDLE" /\ (TryAgain \/ UploadNewFile)) ) ) ]_vars

C5_Witness ==
  /\ Len(log) = 2
  /\ state \in Terminal
  /\ log[1].settled # None
  /\ log[2].settled # None

\* C6: a selected file of at most 20 MiB puts the state in UPLOADING at once,
\* and when its read completes the state becomes ANALYZING and exactly one
\* analyzeAudio call is issued for it, with the browser-reported MIME type or
\* "audio/mpeg" when that type is empty.
C6_AcceptedFileIsReadThenAnalyzed ==
  \A i \in DOMAIN log :
    log[i].file.size <= 20 * 1024 * 1024 =>
      /\ log[i].writes[1] = [ state |-> "UPLOADING", error |-> None ]
      /\ log[i].read # "none"
      /\ log[i].read = "pending" =>
           (log[i].calls = << >> /\ (i = Len(log) => state = "UPLOADING"))
      /\ log[i].read = "failed" => log[i].calls = << >>
      /\ log[i].read = "loaded" =>
           /\ Len(log[i].writes) >= 2
           /\ log[i].writes[2].state = "ANALYZING"
           /\ log[i].calls =
                << [ mimeType |-> IF log[i].file.type = "" THEN "audio/mpeg"
                                                          ELSE log[i].file.type ] >>

C6_Witness ==
  \E i \in DOMAIN log :
    /\ log[i].file.size = 20 * 1024 * 1024
    /\ log[i].file.type = ""
    /\ log[i].read = "loaded"
    /\ state = "ANALYZING"

\* C7: when the read of the selected file fails, the state becomes ERROR
\* with a message; the application does not stay in UPLOADING.
C7_ReadFailureEndsInError ==
  \A i \in DOMAIN log :
    log[i].read = "failed" =>
      /\ LastWrite(i).state = "ERROR"
      /\ LastWrite(i).error # None
      /\ i = Len(log) => state # "UPLOADING"

\* C8: at most one pipeline is active: a selection is accepted only in IDLE
\* and only when no read or call is pending, nothing is pending in IDLE, two
\* analyzeAudio calls are never in flight together, and a pending read or
\* call always belongs to the newest upload.
C8_AtMostOnePipeline ==
  /\ [] ( /\ Cardinality(Pending) <= 1
          /\ Cardinality(InFlight) <= 1
          /\ state = "IDLE" => Pending = {}
          /\ \A i \in Pending : i = Len(log) )
  /\ [][ (Len(log') > Len(log)) => (state = "IDLE" /\ Pending = {}) ]_vars

C8_Witness ==
  /\ Len(log) = 2
  /\ log[1].calls # << >>
  /\ InFlight = { 2 }

\* the file name with only its final extension removed
BaseName(name) ==
  LET dots == { i \in 1..Len(name) : name[i] = "." } IN
    IF dots = {} THEN name
    ELSE SubSeq(name, 1, (CHOOSE i \in dots : \A j \in dots : j <= i) - 1)

HeadingAt(content, k, heading) == Len(content[k]) = 1 /\ content[k][1] = heading

\* C9: the Markdown export is named <basename>_report.md, the basename being
\* the file name without its final extension, and its body has the headings
\* Executive Summary, Sentiment Analysis, Action Items, Full Transcription
\* in that order.
C9_ExportNameAndHeadings ==
  download # None =>
    LET d == download[1] IN
      /\ d.exported # None
      /\ d.name = BaseName(d.exported[1]) \o ReportSuffix
      /\ \E a, b, c, e \in DOMAIN d.content :
           /\ a < b /\ b < c /\ c < e
           /\ HeadingAt(d.content, a, "## Executive Summary")
           /\ HeadingAt(d.content, b, "## Sentiment Analysis")
           /\ HeadingAt(d.content, c, "## Action Items")
           /\ HeadingAt(d.content, e, "## Full Transcription")

\* C10: for a well-formed JSON response with an action item lacking the
\* assignee, the upload ends in COMPLETED with that assignee "Unassigned" or
\* in ERROR; it never ends in COMPLETED with the assignee absent.
C10_MissingAssigneeDefaultedOrRejected ==
  (/\ log # << >>
   /\ log[Len(log)].settled = Some([ rejected |-> FALSE, text |-> Some(TextNoAssignee) ])
   /\ state # "IDLE") =>
     \/ /\ state = "COMPLETED"
        /\ result # None
        /\ \A k \in DOMAIN result[1].actionItems :
             /\ "assignee" \in DOMAIN result[1].actionItems[k]
             /\ result[1].actionItems[k].assignee = "Unassigned"
     \/ state = "ERROR" /\ error # None

\* the selections that passed the size check (at most 20 MiB)
Accepted == { i \in DOMAIN log : log[i].file.size <= 20 * 1024 * 1024 }

\* C11: over any sequence of upload cycles, in COMPLETED the stored result is
\* the parsed response of the inference call issued for the most recently
\* accepted file and the stored file name is that file's name; a result of
\* an earlier cycle is never shown for a later file, and a result is shown
\* only in COMPLETED.
C11_CompletedShowsLatestAnalysis ==
  /\ state = "COMPLETED" =>
       /\ Accepted # {}
       /\ LET i == CHOOSE k \in Accepted : \A j \in Accepted : j <= k IN
            /\ i = Len(log)
            /\ Len(log[i].calls) = 1
            /\ log[i].settled # None
            /\ ~ log[i].settled[1].rejected
            /\ log[i].settled[1].text # None
            /\ ~ JSONparse(log[i].settled[1].text[1]).threw
            /\ result = Some(JSONparse(log[i].settled[1].text[1]).value)
            /\ fileName = Some(log[i].file.name)
  /\ DashboardRendered => state = "COMPLETED"

C11_Witness ==
  /\ Len(log) = 2
  /\ state = "COMPLETED"
  /\ log[1].settled = Some([ rejected |-> FALSE, text |-> Some(TextAssigned) ])
  /\ log[2].settled = Some([ rejected |-> FALSE, text |-> Some(TextNoItems) ])
  /\ log[1].file.name # log[2].file.name
  /\ result[1].actionItems = << >>

\* a step in which a selection is rejected by the size check
SizeRejection ==
  /\ Len(log') = Len(log) + 1
  /\ log'[Len(log')].file.size > 20 * 1024 * 1024

\* C12: in UPLOADING, ANALYZING and COMPLETED the stored error message is
\* null, also for an upload started after an ERROR that 'Try Again' reset
\* ('Try Again' itself leaves the message stored); and a size-limit
\* rejection changes only the state and the error message, leaving the
\* stored file name and result as they were.
C12_NoErrorWhileWorkingAndRejectionFrame ==
  /\ [] ( (state \in { "UPLOADING", "ANALYZING", "COMPLETED" }) => error = None )
  /\ [][ TryAgain => error' = error ]_vars
  /\ [][ SizeRejection =>
           ( /\ state' = "ERROR"
             /\ error' = Some(SizeLimitMessage)
             /\ fileName' = fileName
             /\ result' = result
             /\ download' = download ) ]_vars

C12_Witness ==
  /\ Len(log) = 2
  /\ log[1].file.size > 20 * 1024 * 1024
  /\ log[1].writes[1].error = Some(SizeLimitMessage)
  /\ state \in { "UPLOADING", "ANALYZING", "COMPLETED" }
  /\ error = None

====
